---- MODULE Spec2Model ----
(***************************************************************************)
(* Model of github_updater.py: command-line / config resolution in main,   *)
(* the cycle runner (run_single_cycle, run_continuous) and the three       *)
(* activities with their git, file and remote API calls.                   *)
(*                                                                         *)
(* Every external call is one step whose outcome is chosen by the          *)
(* environment; Python exceptions are propagated through the handlers in   *)
(* the order the code nests them.                                          *)
(***************************************************************************)
EXTENDS Integers, Sequences, FiniteSets, TLC

\* ------------------------------------------------------------------ bounds
\* saturation bound of the cycle counter
MaxCycles == 2
\* largest --interval value drawn for the command line
MaxArgInterval == 2

\* ------------------------------------------------------- program constants
DelayMin == 5
DelayMax == 15
RecoveryDelay == 300
DefaultInterval == 60
MergeWait == 2

\* --------------------------------------------------------- python values
\* None is the empty tuple, a present value v is <<v>>
None == <<>>
Some(v) == <<v>>

\* truthiness of an optional string: None and "" are falsy
TruthyStr(o) == o # None /\ o[1] # ""
\* truthiness of an optional int: None and 0 are falsy
TruthyInt(o) == o # None /\ o[1] # 0
\* Python's `a or b` on optional strings / ints
OrStr(a, b) == IF TruthyStr(a) THEN a ELSE b
OrInt(a, b) == IF TruthyInt(a) THEN a ELSE b

\* exception classes that occur; `except Exception` catches all of them but
\* KeyboardInterrupt, which derives from BaseException only
Exceptions ==
  {"CalledProcessError", "GithubException", "OSError", "RequestException",
   "ValueError", "KeyboardInterrupt"}
IsException(e) == e \in Exceptions \ {"KeyboardInterrupt"}

\* ------------------------------------------------------------ the inputs
ArgsSet ==
  [token : {None, Some(""), Some("t")},
   repo : {None, Some("r")},
   mode : {None, Some("single"), Some("continuous")},
   interval : {None, Some(-1), Some(0), Some(MaxArgInterval)},
   base_dir : {None, Some("d")},
   no_config : BOOLEAN]

NoArgs ==
  [token |-> None, repo |-> None, mode |-> None, interval |-> None,
   base_dir |-> None, no_config |-> FALSE]

\* automation.activities: per activity its toggle (create_content,
\* create_issues, create_prs); a missing key reads as True (lines 797-801)
AllEnabled == [a \in {"commit", "issue", "pr"} |-> TRUE]
ToggleSet == [{"commit", "issue", "pr"} -> BOOLEAN]

\* what the config file holds: no file, invalid JSON, the empty object {}
\* (falsy in Python) or a non-empty object with some of the keys
CfgOf(k) ==
  [kind |-> k, token |-> None, repo_name |-> None, continuous |-> FALSE,
   interval_minutes |-> None, base_directory |-> None,
   activities |-> AllEnabled]

CfgSet ==
  {CfgOf("missing"), CfgOf("malformed"), CfgOf("empty")} \cup
  [kind : {"dict"},
   token : {None, Some("u")},
   repo_name : {None, Some("s")},
   continuous : BOOLEAN,
   interval_minutes : {None, Some(-1), Some(1)},
   base_directory : {None, Some("e")},
   activities : {AllEnabled}]

\* config files that set the activity toggles, each in every combination
ToggleCfgSet ==
  [kind : {"dict"},
   token : {Some("u")},
   repo_name : {Some("s")},
   continuous : BOOLEAN,
   interval_minutes : {Some(-1)},
   base_directory : {None},
   activities : ToggleSet]

NoCfg == CfgOf("none")

NoSettings ==
  [token |-> None, repo |-> None, mode |-> "none", interval |-> None,
   base_dir |-> None]

\* load_config: None for a missing file and for invalid JSON
load_config(c) == IF c.kind \in {"missing", "malformed"} THEN NoCfg ELSE c

\* `if config:` -- None and the empty object are falsy
ConfigTruthy(c) == c.kind = "dict"

\* variant of ConfigRequired: no command-line fallback for a failed load
ConfigRequiredAlways(a) == TRUE

\* main, line 750: the config could not be loaded and the command line does
\* not supply both the token and the repository
ConfigRequired(a) == ~(TruthyStr(a.token) /\ TruthyStr(a.repo))

\* main, lines 746-749: the config as main sees it
ConfigSeen(a, c) == IF a.no_config THEN NoCfg ELSE load_config(c)

\* main, lines 755-770: the final configuration values
Resolve(a, c) ==
  IF ConfigTruthy(c)
  THEN [token |-> OrStr(a.token, c.token),
        repo |-> OrStr(a.repo, c.repo_name),
        mode |-> IF TruthyStr(a.mode) THEN a.mode[1]
                 ELSE IF c.continuous THEN "continuous" ELSE "single",
        interval |-> OrInt(a.interval,
                           IF c.interval_minutes = None
                           THEN Some(DefaultInterval) ELSE c.interval_minutes),
        base_dir |-> OrStr(a.base_dir,
                           IF c.base_directory = None
                           THEN Some(".") ELSE c.base_directory)]
  ELSE [token |-> a.token,
        repo |-> a.repo,
        mode |-> IF TruthyStr(a.mode) THEN a.mode[1] ELSE "single",
        interval |-> OrInt(a.interval, Some(DefaultInterval)),
        base_dir |-> OrStr(a.base_dir, Some("."))]

\* main, lines 750-778: does main return 1 before the updater is built
StartupRejected(a, c) ==
  \/ ~a.no_config /\ load_config(c) = NoCfg /\ ConfigRequired(a)
  \/ ~ConfigTruthy(ConfigSeen(a, c))
       /\ (~TruthyStr(a.token) \/ ~TruthyStr(a.repo))
  \/ ~TruthyStr(Resolve(a, ConfigSeen(a, c)).token)
  \/ ~TruthyStr(Resolve(a, ConfigSeen(a, c)).repo)

\* lines 816-817: `main()` is called and its return value is dropped, so
\* a normal return of main ends the process with status 0
EntryPointStatus(ret) == 0

\* the status of a process ended by an uncaught KeyboardInterrupt: 1 with a
\* traceback on Python 3.7, death by SIGINT (130 in a shell) from 3.8 on
UncaughtInterruptStatus == {1, 130}

\* ------------------------------------------------------------ activities
Activities == {"commit", "issue", "pr"}

\* random.sample(activities, k): the sequences of k distinct activities
Samples(k) ==
  {s \in [1..k -> Activities] : \A i, j \in 1..k : i # j => s[i] # s[j]}

\* variant of SelectedActivities: k = random.randint(0, len(activities))
SelectedActivitiesFromZero ==
  UNION {Samples(k) : k \in 0..Cardinality(Activities)}

\* run_single_cycle, line 670: k = random.randint(1, len(activities))
SelectedActivities == UNION {Samples(k) : k \in 1..Cardinality(Activities)}

\* variant of CycleActivities: the list holds the enabled activities only
CycleActivitiesGated(t) == {a \in Activities : t[a]}

\* run_single_cycle, lines 663-667: the list the cycle samples from; it is
\* built from the three methods and does not read the toggles t
CycleActivities(t) == Activities

\* the external calls of each activity, in program order
CommitSteps == <<"write", "add", "commit", "push">>
IssueSteps == <<"create_issue">>
\* variant of PrSteps: the pull request is opened but never merged
PrStepsNoMerge ==
  <<"checkout_b", "write", "add", "commit", "push_branch", "create_pull",
    "sleep2", "checkout_main", "pull", "branch_d">>

PrSteps ==
  <<"checkout_b", "write", "add", "commit", "push_branch", "create_pull",
    "sleep2", "merge", "checkout_main", "pull", "branch_d">>

Steps(a) ==
  CASE a = "commit" -> CommitSteps
    [] a = "issue" -> IssueSteps
    [] a = "pr" -> PrSteps

\* the command a step invokes; the recovery checkout of create_and_merge_pr
\* runs the same command as its checkout_main step
Cmd(c) ==
  CASE c = "write" -> "write file"
    [] c = "add" -> "git add"
    [] c = "commit" -> "git commit"
    [] c = "push" -> "git push origin main"
    [] c = "create_issue" -> "repo.create_issue"
    [] c = "checkout_b" -> "git checkout -b"
    [] c = "push_branch" -> "git push origin branch"
    [] c = "create_pull" -> "repo.create_pull"
    [] c = "sleep2" -> "time.sleep"
    [] c = "merge" -> "pr.merge"
    [] c = "checkout_main" -> "git checkout main"
    [] c = "pull" -> "git pull origin main"
    [] c = "branch_d" -> "git branch -d"
    [] c = "recover_checkout" -> "git checkout main"
    [] c = "get_repo" -> "github.get_repo"

CallKind(c) ==
  CASE c \in {"add", "commit", "push", "checkout_b", "push_branch",
              "checkout_main", "pull", "branch_d", "recover_checkout"} -> "git"
    [] c \in {"create_issue", "create_pull", "merge", "get_repo"} -> "api"
    [] c = "write" -> "file"
    [] c = "sleep2" -> "sleep"

\* what the environment can answer to a call of each kind
EnvOutcomes(kind) ==
  CASE kind = "git" -> {"ok", "nonzero", "spawn_error", "interrupt"}
    [] kind = "api" -> {"ok", "api_error", "network_error", "interrupt"}
    [] kind = "file" -> {"ok", "io_error", "interrupt"}
    [] kind = "sleep" -> {"ok", "interrupt"}

\* variant of GitCheck: every subprocess.run with check=False
GitCheckNever(c) == FALSE

\* the check= argument of subprocess.run: True for every step, False for
\* the recovery checkout (line 643)
GitCheck(c) == c # "recover_checkout"

\* the exception a call raises for an outcome, "none" if it returns
Raised(c, o) ==
  CASE o = "ok" -> "none"
    [] o = "nonzero" -> IF GitCheck(c) THEN "CalledProcessError" ELSE "none"
    [] o = "spawn_error" -> "OSError"
    [] o = "api_error" -> "GithubException"
    [] o = "network_error" -> "RequestException"
    [] o = "io_error" -> "OSError"
    [] o = "interrupt" -> "KeyboardInterrupt"

\* git_commit_and_push, line 543
GitCommitAndPushCatches(e) == e = "CalledProcessError"
\* create_and_commit_content, line 655
CreateAndCommitContentCatches(e) == IsException(e)
\* create_github_issue, line 570
CreateGithubIssueCatches(e) == e = "GithubException"
\* create_and_merge_pr, line 639
CreateAndMergePrCatches(e) == e \in {"CalledProcessError", "GithubException"}
\* variant of RunSingleCycleCatches: no try/except around the activity
RunSingleCycleCatchesNothing(e) == FALSE

\* run_single_cycle, line 680
RunSingleCycleCatches(e) == IsException(e)

\* what an activity does with exception e raised by its step c:
\* "failed" (returns False), "recover" (the handler of create_and_merge_pr
\* runs) or "raise" (e leaves the activity)
ActivityOnError(a, c, e) ==
  CASE a = "commit" ->
         IF (c # "write" /\ GitCommitAndPushCatches(e))
            \/ CreateAndCommitContentCatches(e)
         THEN "failed" ELSE "raise"
    [] a = "issue" -> IF CreateGithubIssueCatches(e) THEN "failed" ELSE "raise"
    [] a = "pr" -> IF CreateAndMergePrCatches(e) THEN "recover" ELSE "raise"

\* variant of ContinuousOnError: any Exception ends the loop as well
ContinuousOnErrorBreaks(e) == IF IsException(e) \/ e = "KeyboardInterrupt" THEN "break" ELSE "uncaught"

\* run_continuous, lines 703-709: "break" on KeyboardInterrupt, "retry"
\* after the recovery delay on any other Exception, otherwise uncaught
ContinuousOnError(e) ==
  IF e = "KeyboardInterrupt" THEN "break"
  ELSE IF IsException(e) THEN "retry" ELSE "uncaught"

\* main, line 811
MainCatches(e) == IsException(e)

\* variant of IntervalSeconds: the minutes are passed as seconds
IntervalSecondsUnscaled(m) == m

\* line 701: the argument of the interval sleep
IntervalSeconds(m) == m * 60

\* the branch checked out after a git step
BranchAfter(c, o, b) ==
  IF o # "ok" THEN b
  ELSE IF c = "checkout_b" THEN "feature"
  ELSE IF c \in {"checkout_main", "recover_checkout"} THEN "main"
  ELSE b

\* line 538: `git push origin main` pushes the local branch main, while
\* git add / git commit (lines 523-535) commit on the checked-out branch b:
\* the new file reaches the remote main only if b is main
PushPublishes(b) == b = "main"

\* is the file of the running activity in a commit on the remote main after
\* step c of activity a answered o, given it was (r) before
OnRemoteMainAfter(a, c, o, b, r) ==
  IF o # "ok" THEN r
  ELSE IF a = "commit" /\ c = "push" THEN PushPublishes(b)
  ELSE IF a = "pr" /\ c = "merge" THEN TRUE
  ELSE r

\* is the pull request of the running execution merged on the remote
MergedAfter(c, o, m) == IF c = "merge" /\ o = "ok" THEN TRUE ELSE m

\* is the local feature branch of the running execution deleted
DeletedAfter(c, o, d) == IF c = "branch_d" /\ o = "ok" THEN TRUE ELSE d

\* ----------------------------------------------------------------- state
VARIABLES
  pc,            \* position of the program
  args,          \* parsed command line (locals of main, dead once it launches)
  cfg,           \* content of the config file
  settings,      \* token, repo, mode, interval, base_dir as main resolved them
  mode,          \* mode the updater was launched in
  interval,      \* interval_minutes of run_continuous
  selected,      \* selected_activities of the current cycle
  idx,           \* index of the running activity in selected
  step,          \* index of the next call of the running activity
  executed,      \* activities started in the current cycle, in order
  results,       \* per finished activity: "ok", "failed" or "raised"
  calls,         \* calls made by the current activity execution
  branch,        \* branch checked out in the working directory
  cycleLog,      \* "idle", "started" (line 661), "completed" (line 686)
  cycles,        \* cycles started, saturating at MaxCycles
  slept,         \* seconds requested by the sleep of the last step, else 0
  lastDone,      \* last phase run_continuous finished
  interruptSeen, \* a KeyboardInterrupt has been delivered
  errorSeen,     \* run_continuous has caught an unexpected error
  mainReturn,    \* value main returned
  exitStatus,    \* exit status of the process
  uncaught,      \* exception that left main, "none" otherwise
  toggles,       \* `activities` of main (line 796), all True if not read
  delays,        \* delays of line 684 slept in the current cycle
  onRemoteMain,  \* the file of the running activity is on the remote main
  merged,        \* the pull request of the running activity is merged
  deleted        \* the local feature branch of the running activity is gone

vars ==
  <<pc, args, cfg, settings, mode, interval, selected, idx, step, executed,
    results, calls, branch, cycleLog, cycles, slept, lastDone, interruptSeen,
    errorSeen, mainReturn, exitStatus, uncaught, toggles,
    delays, onRemoteMain, merged, deleted>>

inputVars == <<args, cfg, settings>>
runVars == <<mode, interval>>
effectVars == <<onRemoteMain, merged, deleted>>
cycleVars ==
  <<selected, idx, step, executed, results, calls, cycleLog, cycles, delays>>

\* the state of a fresh process, before main reads args a and config c
Started(a, c) ==
  /\ pc = "start"
  /\ args = a
  /\ cfg = c
  /\ toggles = AllEnabled
  /\ delays = 0
  /\ onRemoteMain = FALSE
  /\ merged = FALSE
  /\ deleted = FALSE
  /\ settings = NoSettings
  /\ mode = "none"
  /\ interval = 0
  /\ selected = <<>>
  /\ idx = 0
  /\ step = 0
  /\ executed = <<>>
  /\ results = <<>>
  /\ calls = <<>>
  /\ branch = "main"
  /\ cycleLog = "idle"
  /\ cycles = 0
  /\ slept = 0
  /\ lastDone = "none"
  /\ interruptSeen = FALSE
  /\ errorSeen = FALSE
  /\ mainReturn = 0
  /\ exitStatus = 0
  /\ uncaught = "none"

Init == \E a \in ArgsSet, c \in CfgSet : Started(a, c)

\* started without flags on a config file that sets the activity toggles
ToggleInit == \E c \in ToggleCfgSet : Started(NoArgs, c)

\* ------------------------------------------------- how control leaves
\* main returns ret and the entry point ends the process
MainReturns(ret) ==
  /\ pc' = "exited"
  /\ mainReturn' = ret
  /\ exitStatus' = EntryPointStatus(ret)
  /\ UNCHANGED <<uncaught, errorSeen>>

\* exception e reaches the try of main (lines 787-813)
RaiseInMain(e) ==
  IF MainCatches(e)
  THEN MainReturns(1)
  ELSE /\ pc' = "exited"
       /\ uncaught' = e
       /\ exitStatus' \in UncaughtInterruptStatus
       /\ UNCHANGED <<mainReturn, errorSeen>>

\* exception e reaches the try of the run_continuous loop (lines 693-709)
RaiseInLoop(e) ==
  CASE ContinuousOnError(e) = "break" -> MainReturns(0)
    [] ContinuousOnError(e) = "retry" ->
         /\ pc' = "recovery_sleep"
         /\ errorSeen' = TRUE
         /\ UNCHANGED <<mainReturn, exitStatus, uncaught>>
    [] ContinuousOnError(e) = "uncaught" -> RaiseInMain(e)

\* exception e leaves run_single_cycle
RaiseFromCycle(e) ==
  IF mode = "continuous" THEN RaiseInLoop(e) ELSE RaiseInMain(e)

Goto(p) ==
  /\ pc' = p
  /\ UNCHANGED <<mainReturn, exitStatus, uncaught, errorSeen>>

\* ------------------------------------------------------------------ main
\* main, lines 744-778: load the config, resolve and validate the settings
MainResolve ==
  /\ pc = "start"
  /\ IF StartupRejected(args, cfg)
     THEN /\ MainReturns(1)
          /\ UNCHANGED settings
     ELSE /\ Goto("resolved")
          /\ settings' = Resolve(args, ConfigSeen(args, cfg))
  /\ UNCHANGED <<args, cfg, runVars, cycleVars, branch, slept, lastDone,
                 interruptSeen, toggles, effectVars>>

\* main, lines 787-807: build the updater (Github(token), get_repo) and
\* enter run_single_cycle or run_continuous
MainLaunch ==
  /\ pc = "resolved"
  /\ \E o \in EnvOutcomes(CallKind("get_repo")) :
       /\ interruptSeen' = (interruptSeen \/ o = "interrupt")
       /\ IF Raised("get_repo", o) = "none"
          THEN /\ Goto("select")
               /\ mode' = settings.mode
               /\ interval' = IF settings.mode = "continuous"
                              THEN settings.interval[1] ELSE 0
               /\ toggles' = IF ConfigTruthy(ConfigSeen(args, cfg))
                             THEN cfg.activities ELSE AllEnabled
               /\ args' = NoArgs
               /\ cfg' = NoCfg
               /\ settings' = NoSettings
          ELSE /\ RaiseInMain(Raised("get_repo", o))
               /\ UNCHANGED <<inputVars, runVars, toggles>>
  /\ UNCHANGED <<cycleVars, branch, slept, lastDone, effectVars>>

\* ------------------------------------------------------ run_single_cycle
Saturate(n) == IF n < MaxCycles THEN n + 1 ELSE n

\* run_single_cycle, lines 659-672: select the activities and enter the
\* first one
SelectActivities ==
  /\ pc = "select"
  /\ \E s \in SelectedActivities :
       /\ \A i \in 1..Len(s) : s[i] \in CycleActivities(toggles)
       /\ selected' = s
       /\ idx' = IF Len(s) > 0 THEN 1 ELSE 0
       /\ step' = 1
       /\ executed' = IF Len(s) > 0 THEN <<s[1]>> ELSE <<>>
       /\ IF Len(s) > 0
          THEN /\ Goto("activity")
               /\ cycleLog' = "started"
               /\ lastDone' = lastDone
          ELSE \* nothing selected: the loop body is skipped (line 686)
               /\ cycleLog' = "completed"
               /\ IF mode = "continuous"
                  THEN Goto("interval_sleep") /\ lastDone' = "cycle"
                  ELSE MainReturns(0) /\ lastDone' = lastDone
  /\ results' = <<>>
  /\ calls' = <<>>
  /\ cycles' = Saturate(cycles)
  /\ delays' = 0
  /\ slept' = 0
  /\ onRemoteMain' = FALSE
  /\ merged' = FALSE
  /\ deleted' = FALSE
  /\ UNCHANGED <<inputVars, runVars, branch, interruptSeen, toggles>>

\* the activity returned True ("ok") or False ("failed"), or raised an
\* Exception that run_single_cycle caught and logged ("raised"); the delay
\* of line 684 follows
FinishActivity(r) ==
  /\ results' = Append(results, r)
  /\ Goto("delay")

\* one call of the running activity a, answered by the environment with o
ActivityStep(a) ==
  /\ pc = "activity"
  /\ selected[idx] = a
  /\ LET c == Steps(a)[step] IN
     \E o \in EnvOutcomes(CallKind(c)) :
       LET e == Raised(c, o) IN
       /\ calls' = Append(calls, [cmd |-> Cmd(c), step |-> c, outcome |-> o])
       /\ branch' = BranchAfter(c, o, branch)
       /\ onRemoteMain' = OnRemoteMainAfter(a, c, o, branch, onRemoteMain)
       /\ merged' = MergedAfter(c, o, merged)
       /\ deleted' = DeletedAfter(c, o, deleted)
       /\ slept' = IF c = "sleep2" THEN MergeWait ELSE 0
       /\ interruptSeen' = (interruptSeen \/ o = "interrupt")
       /\ IF e = "none"
          THEN IF step < Len(Steps(a))
               THEN /\ step' = step + 1
                    /\ Goto("activity")
                    /\ UNCHANGED results
               ELSE /\ FinishActivity("ok")
                    /\ UNCHANGED step
          ELSE /\ UNCHANGED step
               /\ CASE ActivityOnError(a, c, e) = "failed" ->
                         FinishActivity("failed")
                    [] ActivityOnError(a, c, e) = "recover" ->
                         Goto("pr_recover") /\ UNCHANGED results
                    [] ActivityOnError(a, c, e) = "raise" ->
                         IF RunSingleCycleCatches(e)
                         THEN FinishActivity("raised")
                         ELSE RaiseFromCycle(e) /\ UNCHANGED results
  /\ UNCHANGED <<inputVars, runVars, selected, idx, executed, cycleLog,
                 cycles, lastDone, toggles, delays>>

\* create_and_commit_content with create_random_content and
\* git_commit_and_push
CreateAndCommitContent == ActivityStep("commit")

\* create_github_issue
CreateGithubIssue == ActivityStep("issue")

\* create_and_merge_pr, the steps of its try block (lines 576-637)
CreateAndMergePr == ActivityStep("pr")

\* create_and_merge_pr, lines 639-646: the recovery checkout with
\* check=False inside a bare except, then return False
PrRecover ==
  /\ pc = "pr_recover"
  /\ \E o \in EnvOutcomes(CallKind("recover_checkout")) :
       /\ calls' = Append(calls, [cmd |-> Cmd("recover_checkout"),
                                  step |-> "recover_checkout", outcome |-> o])
       /\ branch' = BranchAfter("recover_checkout", o, branch)
       /\ interruptSeen' = (interruptSeen \/ o = "interrupt")
  /\ FinishActivity("failed")
  /\ slept' = 0
  /\ UNCHANGED <<inputVars, runVars, selected, idx, step, executed, cycleLog,
                 cycles, lastDone, toggles, delays, effectVars>>

\* run_single_cycle, lines 684-686 and the next iteration of its loop: the
\* delay after an activity, then the next activity or the end of the cycle
Delay ==
  /\ pc = "delay"
  /\ \E d \in DelayMin..DelayMax, o \in EnvOutcomes("sleep") :
       /\ slept' = d
       /\ delays' = delays + 1
       /\ interruptSeen' = (interruptSeen \/ o = "interrupt")
       /\ IF Raised("sleep2", o) # "none"
          THEN /\ RaiseFromCycle(Raised("sleep2", o))
               /\ UNCHANGED <<idx, step, executed, calls, cycleLog, lastDone,
                              effectVars>>
          ELSE IF idx < Len(selected)
          THEN /\ idx' = idx + 1
               /\ step' = 1
               /\ executed' = Append(executed, selected[idx + 1])
               /\ calls' = <<>>
               /\ onRemoteMain' = FALSE
               /\ merged' = FALSE
               /\ deleted' = FALSE
               /\ Goto("activity")
               /\ UNCHANGED <<cycleLog, lastDone>>
          ELSE /\ cycleLog' = "completed"
               /\ UNCHANGED <<idx, step, executed, calls, effectVars>>
               /\ IF mode = "continuous"
                  THEN Goto("interval_sleep") /\ lastDone' = "cycle"
                  ELSE MainReturns(0) /\ lastDone' = lastDone
  /\ UNCHANGED <<inputVars, runVars, selected, results, cycles, branch,
                 toggles>>

\* -------------------------------------------------------- run_continuous
\* run_continuous, lines 696-701: the interval sleep; time.sleep raises
\* ValueError for a negative argument
IntervalSleep ==
  /\ pc = "interval_sleep"
  /\ IF IntervalSeconds(interval) < 0
     THEN /\ RaiseInLoop("ValueError")
          /\ slept' = 0
          /\ UNCHANGED <<interruptSeen, lastDone>>
     ELSE \E o \in EnvOutcomes("sleep") :
            /\ slept' = IntervalSeconds(interval)
            /\ interruptSeen' = (interruptSeen \/ o = "interrupt")
            /\ IF Raised("sleep2", o) # "none"
               THEN RaiseInLoop(Raised("sleep2", o)) /\ UNCHANGED lastDone
               ELSE Goto("select") /\ lastDone' = "interval"
  /\ UNCHANGED <<inputVars, runVars, cycleVars, branch, toggles, effectVars>>

\* run_continuous, line 709: the recovery delay, slept inside the handler
\* of `except Exception`; an exception raised here is outside the try of
\* the loop and leaves run_continuous
RecoverySleep ==
  /\ pc = "recovery_sleep"
  /\ \E o \in EnvOutcomes("sleep") :
       /\ slept' = RecoveryDelay
       /\ interruptSeen' = (interruptSeen \/ o = "interrupt")
       /\ IF Raised("sleep2", o) # "none"
          THEN RaiseInMain(Raised("sleep2", o)) /\ UNCHANGED lastDone
          ELSE Goto("select") /\ lastDone' = "recovery"
  /\ UNCHANGED <<inputVars, runVars, cycleVars, branch, toggles, effectVars>>

Next ==
  \/ MainResolve
  \/ MainLaunch
  \/ SelectActivities
  \/ CreateAndCommitContent
  \/ CreateGithubIssue
  \/ CreateAndMergePr
  \/ PrRecover
  \/ Delay
  \/ IntervalSleep
  \/ RecoverySleep

Spec == Init /\ [][Next]_vars

\* the program started on a config file that sets the activity toggles
ToggleSpec == ToggleInit /\ [][Next]_vars

\* the environment answers every call and every sleep ends
LiveSpec == Init /\ [][Next]_vars /\ WF_vars(Next)

TypeOK ==
  /\ pc \in {"start", "resolved", "select", "activity", "pr_recover", "delay",
             "interval_sleep", "recovery_sleep", "exited"}
  /\ mode \in {"none", "single", "continuous"}
  /\ branch \in {"main", "feature"}
  /\ cycleLog \in {"idle", "started", "completed"}
  /\ cycles \in 0..MaxCycles
  /\ Len(selected) \in 0..3
  /\ idx \in 0..3

\* ---------------------------------------------------------------- claims
InCycle == pc \in {"activity", "pr_recover", "delay"}

\* C1: every execution of run_single_cycle executes at least one and at most
\* three activities of the fixed set, none of them twice
C1_OneToThreeDistinct ==
  /\ Len(executed) <= 3
  /\ \A i \in 1..Len(executed) : executed[i] \in Activities
  /\ \A i, j \in 1..Len(executed) : i # j => executed[i] # executed[j]
  /\ cycleLog # "idle" => Len(executed) >= 1

C1_Witness ==
  /\ cycleLog = "completed"
  /\ Len(executed) = 3
  /\ cycles = 2

\* C2: an activity that returns failure or raises an error never aborts the
\* cycle: the selected activities are executed in the selected order, all of
\* them by the time the cycle completes, and without an interrupt a started
\* cycle is left only by completing
C2_FailureNeverAborts ==
  /\ Len(executed) <= Len(selected)
  /\ executed = SubSeq(selected, 1, Len(executed))
  /\ cycleLog = "completed" =>
       executed = selected /\ Len(results) = Len(selected)
  /\ (cycleLog = "started" /\ ~interruptSeen) => InCycle

C2_Witness ==
  /\ cycleLog = "completed"
  /\ ~interruptSeen
  /\ Len(selected) = 3
  /\ results[1] = "raised"
  /\ results[2] = "failed"
  /\ results[3] = "ok"

\* a step of the try block of the running activity has failed
StepFailed ==
  \E i \in 1..Len(calls) :
    calls[i].step # "recover_checkout" /\ calls[i].outcome # "ok"

PrEnded == pc = "delay" /\ selected[idx] = "pr"

\* C3: when a step of open-and-merge-pr fails, no remaining step runs, the
\* recovery checkout of the default branch is attempted, and the activity
\* reports failure to the cycle
C3_PrFailureRecovers ==
  (PrEnded /\ StepFailed) =>
    /\ results[idx] = "failed"
    /\ calls[Len(calls)].step = "recover_checkout"
    /\ \A i \in 1..(Len(calls) - 2) : calls[i].outcome = "ok"

\* C4: in commit-content a non-zero exit of git add, commit or push makes
\* the activity report failure, nothing propagates past run_single_cycle,
\* and no later step of the activity is executed
C4_NonZeroIsLast ==
  (InCycle /\ selected[idx] = "commit") =>
    \A i \in 1..Len(calls) :
      calls[i].outcome = "nonzero" =>
        /\ i = Len(calls)
        /\ pc = "delay"
        /\ Len(results) = idx
        /\ results[idx] = "failed"

C4_NonZeroStep ==
  (/\ pc = "activity"
   /\ selected[idx] = "commit"
   /\ Len(calls') = Len(calls) + 1
   /\ calls'[Len(calls')].outcome = "nonzero")
  => /\ pc' = "delay"
     /\ results' = Append(results, "failed")
     /\ uncaught' = "none"
     /\ errorSeen' = errorSeen

C4_GitFailureReported == []C4_NonZeroIsLast /\ [][C4_NonZeroStep]_vars

C4_Witness ==
  /\ pc = "delay"
  /\ selected[idx] = "commit"
  /\ Len(calls) = 3
  /\ calls[3].step = "commit"
  /\ calls[3].outcome = "nonzero"
  /\ results[idx] = "failed"

\* C5: an interrupt delivered while run_continuous is running makes the
\* loop return normally: it does not propagate and no further cycle starts
C5_InterruptEndsLoop ==
  (mode = "continuous" /\ interruptSeen) =>
    /\ pc = "exited"
    /\ uncaught = "none"
    /\ mainReturn = 0

\* C6: without error and interrupt, cycles and interval sleeps alternate:
\* a cycle runs only at the start or after an interval sleep, the interval
\* sleep follows a completed cycle, and it lasts interval_minutes * 60
C6_CyclesAlternate ==
  (mode = "continuous" /\ ~errorSeen /\ ~interruptSeen) =>
    /\ (InCycle \/ pc = "select") => lastDone \in {"none", "interval"}
    /\ pc = "interval_sleep" => lastDone = "cycle" /\ cycleLog = "completed"
    /\ (pc = "select" /\ lastDone = "interval") => slept = interval * 60
    /\ pc \in {"select", "interval_sleep"} \/ InCycle

C6_Witness ==
  /\ mode = "continuous"
  /\ ~errorSeen
  /\ ~interruptSeen
  /\ pc = "select"
  /\ lastDone = "interval"
  /\ cycles = 2
  /\ interval > 0
  /\ slept = 60 * interval

\* C7: an unexpected error does not end the loop of run_continuous: it
\* sleeps the recovery delay of 300 seconds and starts another cycle: without
\* an interrupt run_continuous never returns and a cycle always follows
C7_NeverReturns ==
  (mode = "continuous" /\ pc = "exited") => interruptSeen

C7_RecoveryStep ==
  /\ (errorSeen' /\ ~errorSeen) => pc' = "recovery_sleep"
  /\ (pc = "recovery_sleep" /\ ~interruptSeen') =>
       pc' = "select" /\ slept' = 300

C7_ErrorRetries ==
  /\ []C7_NeverReturns
  /\ [][C7_RecoveryStep]_vars
  /\ (pc = "recovery_sleep") ~> (pc = "select" \/ interruptSeen)
  /\ (mode = "continuous" /\ errorSeen) ~> (InCycle \/ interruptSeen)

C7_Witness ==
  /\ mode = "continuous"
  /\ errorSeen
  /\ ~interruptSeen
  /\ lastDone = "recovery"
  /\ pc = "activity"
  /\ slept = 0

\* the program was started with a config file without github.token and
\* without --token
NoTokenStart ==
  /\ ~args.no_config
  /\ cfg.kind \in {"dict", "empty"}
  /\ cfg.token = None
  /\ args.token = None

\* C8: started with a config file without github.token and without --token,
\* the process exits with exit code 1 and no activity is executed
C8_NoTokenExitsOne ==
  (pc = "exited" /\ NoTokenStart) =>
    /\ exitStatus = 1
    /\ cycleLog = "idle"
    /\ executed = <<>>

MalformedStart == pc = "start" /\ cfg.kind = "malformed" /\ ~args.no_config

\* C9 as stated: a malformed config file is fatal for every command line
\* without --no-config
C9_MalformedAlwaysFatal ==
  [][MalformedStart => (pc' = "exited" /\ mainReturn' = 1)]_vars

\* C9 as amended: a malformed config file is fatal (main returns 1 before
\* the updater is built) for every command line without --no-config that
\* does not give both --token and --repo; with both, main continues with
\* the command-line values only
C9_MalformedFatalStep ==
  MalformedStart =>
    IF TruthyStr(args.token) /\ TruthyStr(args.repo)
    THEN /\ pc' = "resolved"
         /\ settings' = Resolve(args, NoCfg)
         /\ settings'.token = args.token
         /\ settings'.repo = args.repo
    ELSE /\ pc' = "exited"
         /\ mainReturn' = 1
         /\ cycleLog' = "idle"

C9_MalformedFatalUnlessCli == [][C9_MalformedFatalStep]_vars

C9_Witness ==
  /\ pc = "exited"
  /\ cfg.kind = "malformed"
  /\ ~args.no_config
  /\ args.token = Some("t")
  /\ args.repo = None
  /\ mainReturn = 1
  /\ cycleLog = "idle"

\* C10 as stated: within one activity execution every git command and
\* every API call is invoked at most once
C10_EveryCallOnce ==
  \A i, j \in 1..Len(calls) : i # j => calls[i].cmd # calls[j].cmd

\* C10 as amended: within one activity execution no step follows the first
\* failing call and every command is invoked at most once, except that the
\* error handler of create_and_merge_pr runs `git checkout main` once, which
\* repeats the command when the checkout_main step has already run
C10_OnceExceptRecovery ==
  /\ \A i, j \in 1..Len(calls) :
       (i < j /\ calls[i].cmd = calls[j].cmd) =>
         /\ calls[i].step = "checkout_main"
         /\ calls[j].step = "recover_checkout"
         /\ j = Len(calls)
  /\ \A i \in 1..Len(calls) :
       calls[i].outcome # "ok" =>
         \/ i = Len(calls)
         \/ i = Len(calls) - 1 /\ calls[Len(calls)].step = "recover_checkout"

C10_Witness ==
  /\ pc = "delay"
  /\ Len(calls) = 10
  /\ calls[9].step = "checkout_main"
  /\ calls[9].outcome = "nonzero"
  /\ calls[10].step = "recover_checkout"
  /\ results[idx] = "failed"

C12_DelaysOnlyBetween ==
  /\ (pc = "activity" /\ calls = <<>> /\ idx > 1) => slept \in 5..15
  /\ pc = "activity" => delays = Len(executed) - 1
  /\ cycleLog = "completed" => delays = Len(executed) - 1

\* main has resolved the settings from the command line and a loaded config
ResolvedWithConfig ==
  pc = "resolved" /\ ConfigTruthy(ConfigSeen(args, cfg))

\* C13: each of --token, --repo, --mode, --interval and --base-dir, when
\* given, overrides the config-file value: the effective setting equals the
\* value of the flag, for every value the flag accepts
C13_FlagsOverrideConfig ==
  ResolvedWithConfig =>
    /\ args.token # None => settings.token = args.token
    /\ args.repo # None => settings.repo = args.repo
    /\ args.mode # None => settings.mode = args.mode[1]
    /\ args.interval # None => settings.interval = args.interval
    /\ args.base_dir # None => settings.base_dir = args.base_dir

\* an activity is about to make its first call
ActivityStarts == pc = "activity" /\ calls = <<>>

\* C14: after any sequence of cycles and activity outcomes the checkout is
\* on the default branch whenever an activity starts and whenever a cycle
\* ends; no activity starts on a feature branch of open-and-merge-pr
C14_StartsOnMain ==
  /\ ActivityStarts => branch = "main"
  /\ cycleLog = "completed" => branch = "main"

CommitEnded == pc = "delay" /\ selected[idx] = "commit"

\* C15: whenever commit-content reports success, the file it generated is
\* in a commit on the remote default branch, after any preceding activities
C15_SuccessMeansPublished ==
  (CommitEnded /\ results[idx] = "ok") => onRemoteMain

\* C16 as stated: open-and-merge-pr reports success if and only if the pull
\* request it opened was merged, and on success the checkout is on the
\* default branch and the local feature branch is deleted
C16_SuccessIffMerged ==
  PrEnded =>
    /\ (results[idx] = "ok") <=> merged
    /\ results[idx] = "ok" => (branch = "main" /\ deleted)

\* a step of create_and_merge_pr that follows the merge has failed
CleanupFailed ==
  \E i \in 1..Len(calls) :
    /\ calls[i].step \in {"checkout_main", "pull", "branch_d"}
    /\ calls[i].outcome # "ok"

\* C16 as amended: success is reported only if the pull request was merged,
\* the checkout is on the default branch and the local feature branch is
\* deleted; failure is reported for a merged pull request exactly when a
\* step after the merge (checkout of main, pull, branch deletion) failed
C16_SuccessImpliesMerged ==
  PrEnded =>
    /\ results[idx] = "ok" => (merged /\ branch = "main" /\ deleted)
    /\ results[idx] # "ok" => (merged <=> CleanupFailed)

C16_Witness ==
  /\ PrEnded
  /\ results[idx] = "failed"
  /\ merged
  /\ Len(calls) = 11
  /\ calls[10].step = "pull"
  /\ calls[10].outcome = "nonzero"
  /\ branch = "main"

\* C17: in run_continuous a failing activity never triggers the recovery
\* delay: no step of an activity leads to it, the delay after the last
\* activity is followed by the interval sleep (or by the end of the loop on
\* an interrupt), and the recovery delay is entered only from the interval
\* sleep of a completed cycle, outside the per-activity error handling
C17_ActivityStep ==
  /\ (pc \in {"activity", "pr_recover"}) =>
       /\ pc' # "recovery_sleep"
       /\ errorSeen' = errorSeen
       /\ (Len(results') > Len(results) /\ results'[Len(results')] # "ok")
            => pc' = "delay"
  /\ (mode = "continuous" /\ pc = "delay" /\ idx = Len(selected)) =>
       \/ pc' = "interval_sleep" /\ cycleLog' = "completed"
       \/ pc' = "exited" /\ interruptSeen'
  /\ (pc # "recovery_sleep" /\ pc' = "recovery_sleep") =>
       pc = "interval_sleep" /\ cycleLog = "completed"

C17_FailureSkipsRecovery == [][C17_ActivityStep]_vars

C17_Witness ==
  /\ mode = "continuous"
  /\ pc = "interval_sleep"
  /\ cycleLog = "completed"
  /\ ~errorSeen
  /\ ~interruptSeen
  /\ results = <<"failed", "raised">>

====
